---- MODULE Spec2Model ----
(***************************************************************************)
(* A model of gimme.py (Gimme 0.8, a transcript assembler).                *)
(*                                                                         *)
(* Keys.  str(exon) is '%s:%d-%d' % (chrom, start, end); the model keeps   *)
(* the key as the tuple <<chrom, start, end>> (the format is injective).   *)
(* Intron names are built the same way from (chrom, intronStart,           *)
(* intronEnd).                                                             *)
(*                                                                         *)
(* Iteration orders.  A dict keyed by ints (cluster ids, the nodes of an   *)
(* integer-keyed graph) iterates in the order of its hash-table slots      *)
(* (PyDictKeys).  Collections keyed by strings iterate in hash order:      *)
(* where that order reaches the result (the path mergeClusters builds from *)
(* exon.introns, the order in which merge_exons visits chromosomes, the    *)
(* roots and successors getPath walks) the model takes every order.        *)
(*                                                                         *)
(* Output.  The rows written to stdout are kept (records); the lines       *)
(* written to stderr are not.  main's n is read only to write a progress   *)
(* line to stderr, so of n the model keeps whether it is bound.            *)
(***************************************************************************)
EXTENDS Integers, Sequences, FiniteSets, TLC

VARIABLES
    \* ---- main(): the assembly pipeline
    pc,             \* position in main(): "files" (the loop over inputFiles),
                    \* "read" (inside one file), "merged", "built", "done",
                    \* "unbound" (UnboundLocalError), "error"
    nFiles,         \* number of input files opened so far
    nRead,          \* number of PSL records read so far
    nBound,         \* whether main's n is bound (its value reaches stderr only)
    calls,          \* history: the exon lists handed to addExon/addIntrons, in order
    exonDb,         \* exonDb: name -> ExonObj
    intronDb,       \* intronDb: name -> intron graph (edges, cluster attribute)
    clusters,       \* clusters: id -> cluster graph (nodes, edges)
    clusterNo,      \* main's clusterNo
    absorbed,       \* history: per addIntrons call, the cluster ids it popped
    single_exons,   \* main's single_exons: chrom -> list of exons
    bigCluster,     \* result of mergeClusters (undirected graph)
    loci,           \* history of buildGeneModels: one record per gene graph built
    records,        \* the BED records written to stdout, in order
    geneId,         \* geneId as returned by buildGeneModels, then counted on in main
    numTranscripts, \* numTranscripts, likewise
    \* ---- deleteGap applied to a block list, then to its own output
    gapPc, gapIn, gapOnce, gapTwice,
    gapRef,         \* gapOnce[j] is the object gapIn[gapRef[j]]
    \* ---- merge_exons applied to a single_exons table
    sePc, seIn, seOrder, seOut, seRecords,
    seGiven,        \* history: the table as it was handed to merge_exons
    \* ---- getPath applied to a directed graph
    pathPc, pathGraph, pathResult,
    \* ---- collapseExons on a gene graph, one loop iteration of pass 1 at a time
    colPc,          \* "off", "start", "pass1" (inside the first loop), "done"
    colG,           \* g
    colSorted,      \* sortedExons of the first pass
    colI,           \* i, counted from 1
    colCurr         \* currExon

mainVars == <<pc, nFiles, nRead, nBound, calls, exonDb, intronDb,
              clusters, clusterNo, absorbed,
              single_exons, bigCluster, loci, records, geneId, numTranscripts>>
gapVars == <<gapPc, gapIn, gapOnce, gapTwice, gapRef>>
seVars == <<sePc, seGiven, seIn, seOrder, seOut, seRecords>>
pathVars == <<pathPc, pathGraph, pathResult>>
colVars == <<colPc, colG, colSorted, colI, colCurr>>
vars == <<mainVars, gapVars, seVars, pathVars, colVars>>

(***************************************************************************)
(* Program constants (module level of gimme.py).                           *)
(***************************************************************************)
GAP_SIZE == 10
MAX_INTRON == 100000
MIN_UTR == 100
MIN_EXON == 10
MIN_TRANSCRIPT_LEN == 300

\* ExonObj.terminal: None, 1 (leftmost of an alignment), 2 (rightmost).
\* None is falsy in `not exon.terminal`; 1 and 2 are truthy.
None == 0
LeftTerminal == 1
RightTerminal == 2

\* nx.DiGraph(name=intronName, cluster=None): the cluster attribute before it
\* is assigned (cluster ids are integers >= 0).
NoCluster == -1

(***************************************************************************)
(* Bounds of the model.                                                    *)
(***************************************************************************)
MaxFiles == 2        \* input files main() is given
MaxAlignments == 3   \* PSL records main() reads, all files together
MaxBlocks == 3       \* blocks of one PSL record
MaxGapLen == 3       \* blocks of a list given to deleteGap
MaxSingles == 3      \* single-exon alignments given to merge_exons
MaxNodes == 4        \* nodes of a graph given to getPath
MaxEdges == 4        \* edges of a graph given to getPath

(***************************************************************************)
(* Generic helpers.                                                        *)
(***************************************************************************)
Range(s) == {s[i] : i \in 1..Len(s)}

\* Lexicographic order on tuples of integers of equal length.
RECURSIVE TupleLess(_, _, _)
TupleLess(a, b, i) ==
    IF i > Len(a) THEN FALSE
    ELSE IF a[i] < b[i] THEN TRUE
    ELSE IF a[i] > b[i] THEN FALSE
    ELSE TupleLess(a, b, i + 1)

\* A finite set of integer tuples (of equal length) in ascending order.
RECURSIVE SortTuples(_)
SortTuples(S) ==
    IF S = {} THEN <<>>
    ELSE LET m == CHOOSE x \in S : \A y \in S \ {x} : TupleLess(x, y, 1)
         IN <<m>> \o SortTuples(S \ {m})

\* A finite set of integers in ascending order.
SortInts(S) ==
    LET t == SortTuples({<<c>> : c \in S})
    IN [i \in 1..Len(t) |-> t[i][1]]

\* All orderings of a finite set, as sequences.
RECURSIVE Perms(_)
Perms(S) ==
    IF S = {} THEN {<<>>}
    ELSE UNION {{<<x>> \o p : p \in Perms(S \ {x})} : x \in S}

(***************************************************************************)
(* The order in which CPython 2 iterates a dict whose keys are             *)
(* non-negative ints, none ever deleted: the order of the slots of its     *)
(* hash table.  A table is a function from its slots 0..size-1 to {} (a    *)
(* free slot) or {key}.  hash(key) = key; the first slot tried is          *)
(* key & mask, the next ones follow the perturbed probe sequence; the      *)
(* table starts with 8 slots and, once two thirds full, is rebuilt with    *)
(* the first power of two above four times the number of keys, the keys    *)
(* going over in slot order.                                               *)
(***************************************************************************)
PyNewTable(size) == [slot \in 0..(size - 1) |-> {}]

PySize(table) == Cardinality(DOMAIN table)

PyUsed(table) == Cardinality({slot \in DOMAIN table : table[slot] # {}})

\* lookdict: the slot that holds key, or the free slot where it goes
RECURSIVE PyLookup(_, _, _, _)
PyLookup(table, key, i, perturb) ==
    LET slot == i % PySize(table)
    IN IF table[slot] = {} \/ table[slot] = {key} THEN slot
       ELSE PyLookup(table, key, 5 * i + perturb + 1, perturb \div 32)

PySlotOf(table, key) == PyLookup(table, key, key % PySize(table), key)

\* the keys in slot order
RECURSIVE PySlotOrder(_, _)
PySlotOrder(table, slot) ==
    IF slot >= PySize(table) THEN <<>>
    ELSE (IF table[slot] = {} THEN <<>> ELSE <<CHOOSE k \in table[slot] : TRUE>>)
         \o PySlotOrder(table, slot + 1)

RECURSIVE PyFill(_, _, _)
PyFill(table, keys, i) ==
    IF i > Len(keys) THEN table
    ELSE PyFill([table EXCEPT ![PySlotOf(table, keys[i])] = {keys[i]}], keys, i + 1)

RECURSIVE PyGrow(_, _)
PyGrow(size, minused) == IF size > minused THEN size ELSE PyGrow(2 * size, minused)

\* dictresize(mp, 4 * ma_used)
PyResize(table) ==
    PyFill(PyNewTable(PyGrow(8, 4 * PyUsed(table))), PySlotOrder(table, 0), 1)

\* d[key] = value
PySetItem(table, key) ==
    IF table[PySlotOf(table, key)] = {key} THEN table
    ELSE LET t == [table EXCEPT ![PySlotOf(table, key)] = {key}]
         IN IF PyUsed(t) * 3 >= PySize(t) * 2 THEN PyResize(t) ELSE t

RECURSIVE PySetItems(_, _, _)
PySetItems(table, keys, i) ==
    IF i > Len(keys) THEN table
    ELSE PySetItems(PySetItem(table, keys[i]), keys, i + 1)

\* list(d) for a dict d that got the keys in the order `insertions`
PyDictKeys(insertions) == PySlotOrder(PySetItems(PyNewTable(8), insertions, 1), 0)

(***************************************************************************)
(* ExonObj and its key.                                                    *)
(***************************************************************************)
ExonObj(chrom, start, end) ==
    [chrom |-> chrom, start |-> start, end |-> end, terminal |-> None,
     nextExons |-> {}, introns |-> {}]

\* ExonObj.__str__
ExonStr(exon) == <<exon.chrom, exon.start, exon.end>>

(***************************************************************************)
(* deleteGap(exons): i counts the blocks consumed so far.                  *)
(***************************************************************************)
\* deleteGap merging only gaps strictly below GAP_SIZE
GapTestStrict(nextExon, currExon) == nextExon.start - currExon.end < GAP_SIZE

GapTest(nextExon, currExon) == nextExon.start - currExon.end <= GAP_SIZE

\* The loop of deleteGap.  exons is the caller's list, whose objects the
\* loop overwrites (currExon.end = nextExon.end); currExon and the entries
\* of newExon are objects of that list, kept here as their positions in it.
RECURSIVE DeleteGapLoop(_, _, _, _)
DeleteGapLoop(exons, i, currExon, newExon) ==
    IF i + 1 > Len(exons)
    THEN [exons |-> exons, newExon |-> Append(newExon, currExon)]
    ELSE LET nextExon == exons[i + 1]
         IN IF GapTest(nextExon, exons[currExon])
            THEN DeleteGapLoop([exons EXCEPT ![currExon].end = nextExon.end],
                               i + 1, currExon, newExon)
            ELSE DeleteGapLoop(exons, i + 1, i + 1, Append(newExon, currExon))

\* the list deleteGap returns
deleteGap(exons) ==
    LET r == DeleteGapLoop(exons, 1, 1, <<>>)
    IN [j \in 1..Len(r.newExon) |-> r.exons[r.newExon[j]]]

(***************************************************************************)
(* parsePSL for one PSL record: blocks is the list of <<tStart,            *)
(* blockSize>>, tName the chromosome.  Returns the list of exon runs it    *)
(* yields.                                                                 *)
(***************************************************************************)
RECURSIVE SplitRuns(_, _, _, _)
SplitRuns(exons, i, kept, out) ==
    IF i > Len(exons) THEN (IF kept # <<>> THEN Append(out, kept) ELSE out)
    ELSE LET exon == exons[i]
         IN IF (exon.end - exon.start) + 1 >= MIN_EXON
            THEN SplitRuns(exons, i + 1, Append(kept, exon), out)
            ELSE IF kept # <<>>
                 THEN SplitRuns(exons, i + 1, <<>>, Append(out, kept))
                 ELSE SplitRuns(exons, i + 1, kept, out)

parsePSL(tName, blocks) ==
    LET exons == [i \in 1..Len(blocks) |->
                    ExonObj(tName, blocks[i][1], blocks[i][1] + blocks[i][2])]
    IN SplitRuns(deleteGap(exons), 1, <<>>, <<>>)

(***************************************************************************)
(* addExon(db, exons).                                                     *)
(***************************************************************************)
\* exons[0].terminal = 1; exons[-1].terminal = 2
MarkTerminals(exons) ==
    [i \in 1..Len(exons) |->
        [exons[i] EXCEPT !.terminal = IF i = Len(exons) THEN RightTerminal
                                      ELSE IF i = 1 THEN LeftTerminal
                                      ELSE @]]

\* addExon leaving the registered entry as it is
KeepTerminal(exon, exon_) == exon_

\* the else branch of the lookup: the entry exon_ already in db
ReconcileTerminal(exon, exon_) ==
    IF exon.terminal = None /\ exon_.terminal # None
    THEN [exon_ EXCEPT !.terminal = None]
    ELSE exon_

RECURSIVE AddExonLoop(_, _, _)
AddExonLoop(db, exons, i) ==
    IF i > Len(exons) THEN db
    ELSE LET exon == exons[i]
             k == ExonStr(exon)
         IN IF k \notin DOMAIN db
            THEN AddExonLoop((k :> exon) @@ db, exons, i + 1)
            ELSE AddExonLoop([db EXCEPT ![k] = ReconcileTerminal(exon, db[k])],
                             exons, i + 1)

addExon(db, exons) == AddExonLoop(db, MarkTerminals(exons), 1)

(***************************************************************************)
(* Graphs.  A networkx graph is its node set and its edge set; an edge of  *)
(* a DiGraph is <<u, v>>, an edge of an undirected Graph is {u, v} (a      *)
(* self-loop is {u}).                                                      *)
(***************************************************************************)
EmptyGraph == [nodes |-> {}, edges |-> {}]

EndPoints(edges) == {e[1] : e \in edges} \cup {e[2] : e \in edges}

\* DiGraph.add_edges_from
AddEdges(g, edges) ==
    [nodes |-> g.nodes \cup EndPoints(edges), edges |-> g.edges \cup edges]

\* DiGraph.add_node
AddNode(g, n) == [g EXCEPT !.nodes = @ \cup {n}]

\* DiGraph.add_path(nlist): the edges between consecutive entries
PathEdges(nlist) == {<<nlist[i], nlist[i + 1]>> : i \in 1..(Len(nlist) - 1)}

\* DiGraph.remove_node
RemoveNode(g, n) ==
    [nodes |-> g.nodes \ {n},
     edges |-> {e \in g.edges : e[1] # n /\ e[2] # n}]

Successors(g, n) == {e[2] : e \in {d \in g.edges : d[1] = n}}
Predecessors(g, n) == {e[1] : e \in {d \in g.edges : d[2] = n}}

(***************************************************************************)
(* addIntrons(exons, intronDb, exonDb, clusters, clusterNo).               *)
(* The loop state st carries exonDb, intronDb, the list introns (names)    *)
(* and the set existingClusters.                                           *)
(***************************************************************************)
IntronName(currExon, nextExon) ==
    <<currExon.chrom, currExon.end + 1, nextExon.start - 1>>

TooLong(currExon, nextExon) ==
    (nextExon.start - 1) - (currExon.end + 1) > MAX_INTRON

LinkPair(st, currKey, nextKey) ==
    LET currExon == st.exonDb[currKey]
        nextExon == st.exonDb[nextKey]
        name == IntronName(currExon, nextExon)
        edge == <<ExonStr(currExon), ExonStr(nextExon)>>
        db1 == [st.exonDb EXCEPT ![currKey].nextExons = @ \cup {ExonStr(nextExon)}]
        db2 == [db1 EXCEPT ![currKey].introns = @ \cup {name}]
        db3 == [db2 EXCEPT ![nextKey].introns = @ \cup {name}]
    IN IF name \notin DOMAIN st.intronDb
       THEN [exonDb |-> db3,
             intronDb |-> (name :> [edges |-> {edge}, cluster |-> NoCluster])
                          @@ st.intronDb,
             introns |-> Append(st.introns, name),
             existingClusters |-> st.existingClusters]
       ELSE [exonDb |-> db3,
             intronDb |-> [st.intronDb EXCEPT ![name].edges = @ \cup {edge}],
             introns |-> Append(st.introns, name),
             existingClusters |->
                 st.existingClusters \cup {st.intronDb[name].cluster}]

RECURSIVE LinkLoop(_, _, _)
LinkLoop(exons, i, st) ==
    IF i > Len(exons) THEN st
    ELSE IF i + 1 > Len(exons) THEN LinkLoop(exons, i + 1, st)
    ELSE LET currKey == ExonStr(exons[i])
             nextKey == ExonStr(exons[i + 1])
         IN IF TooLong(st.exonDb[currKey], st.exonDb[nextKey])
            THEN LinkLoop(exons, i + 1, st)
            ELSE LinkLoop(exons, i + 1, LinkPair(st, currKey, nextKey))

\* intron.graph['cluster'] = clusterNo for every intron of a collection
SetCluster(idb, names, no) ==
    [n \in DOMAIN idb |->
        IF n \in names THEN [idb[n] EXCEPT !.cluster = no] ELSE idb[n]]

\* a new cluster of this alignment's introns: linked in order, or the only
\* one added as a node
AddOwnIntrons(cluster, introns) ==
    IF Len(introns) > 1 THEN AddEdges(cluster, PathEdges(introns))
    ELSE AddNode(cluster, introns[1])

\* addIntrons without the add_node of an alignment's only intron
DropLoneIntron(cluster, introns) ==
    IF Len(introns) > 1 THEN AddEdges(cluster, PathEdges(introns)) ELSE cluster

\* the same lines in the branch that absorbs clusters
AddOwnIntronsMerged(cluster, introns) ==
    IF Len(introns) > 1 THEN AddEdges(cluster, PathEdges(introns))
    ELSE AddNode(cluster, introns[1])

\* what the merge branch copies from the clusters it absorbs
AbsorbedGraph(cls, existingClusters) ==
    AddEdges(EmptyGraph, UNION {cls[cl].edges : cl \in existingClusters})

\* addIntrons leaving the absorbed clusters in the table
KeepClusters(cls, existingClusters) == cls

\* clusters.pop(cl) for every absorbed cluster
PopClusters(cls, existingClusters) ==
    [c \in DOMAIN cls \ existingClusters |-> cls[c]]

addIntrons(exons, idb, edb, cls, no) ==
    LET st == LinkLoop(exons, 1,
                       [exonDb |-> edb, intronDb |-> idb, introns |-> <<>>,
                        existingClusters |-> {}])
    IN IF st.introns = <<>>
       THEN [exonDb |-> st.exonDb, intronDb |-> st.intronDb, clusters |-> cls,
             popped |-> {}]
       ELSE IF st.existingClusters = {}
       THEN [exonDb |-> st.exonDb,
             intronDb |-> SetCluster(st.intronDb, Range(st.introns), no),
             clusters |-> (no :> AddOwnIntrons(EmptyGraph, st.introns))
                          @@ cls,
             popped |-> {}]
       ELSE LET old == AbsorbedGraph(cls, st.existingClusters)
                idb1 == SetCluster(st.intronDb, old.nodes, no)
            IN [exonDb |-> st.exonDb,
                intronDb |-> SetCluster(idb1, Range(st.introns), no),
                clusters |-> (no :> AddOwnIntronsMerged(old, st.introns))
                             @@ PopClusters(cls, st.existingClusters),
                popped |-> st.existingClusters]

(***************************************************************************)
(* main(), the reading loop: one PSL record is parsed and each exon run    *)
(* it yields is registered (two exons or more) or kept as a single exon.   *)
(***************************************************************************)
\* single_exons[chrom].append(exon), creating the list when absent
AppendSingle(se, exon) ==
    IF exon.chrom \notin DOMAIN se THEN (exon.chrom :> <<exon>>) @@ se
    ELSE [se EXCEPT ![exon.chrom] = Append(@, exon)]

MainState ==
    [exonDb |-> exonDb, intronDb |-> intronDb, clusters |-> clusters,
     clusterNo |-> clusterNo, single_exons |-> single_exons,
     calls |-> calls, absorbed |-> absorbed]

\* the body of the loop over parsePSL's runs
RegisterRun(m, exons) ==
    IF Len(exons) > 1
    THEN LET marked == MarkTerminals(exons)
             db == addExon(m.exonDb, exons)
             r == addIntrons(marked, m.intronDb, db, m.clusters, m.clusterNo)
         IN [m EXCEPT !.exonDb = r.exonDb, !.intronDb = r.intronDb,
                      !.clusters = r.clusters, !.clusterNo = @ + 1,
                      !.calls = Append(@, [i \in 1..Len(exons) |-> ExonStr(exons[i])]),
                      !.absorbed = Append(@, r.popped)]
    ELSE [m EXCEPT !.single_exons = AppendSingle(@, exons[1])]

RECURSIVE RegisterRuns(_, _, _)
RegisterRuns(m, runs, i) ==
    IF i > Len(runs) THEN m
    ELSE RegisterRuns(RegisterRun(m, runs[i]), runs, i + 1)

(***************************************************************************)
(* Input alignments: PSL records on one chromosome, each a list of         *)
(* non-overlapping blocks <<tStart, blockSize>> in ascending order, drawn  *)
(* from a pool of blocks.                                                  *)
(***************************************************************************)
Chrom == "chr1"

BlockPool == {<<100, 100>>, <<300, 100>>, <<300, 150>>, <<600, 200>>, <<900, 160>>}

Disjoint(S) ==
    \A x \in S : \A y \in S \ {x} : x[1] + x[2] <= y[1] \/ y[1] + y[2] <= x[1]

\* no block of the pool that fits between two blocks of T is left out
Contiguous(T) ==
    \A x \in BlockPool \ T :
        Disjoint(T \cup {x}) =>
            \/ \A y \in T : x[1] < y[1]
            \/ \A y \in T : x[1] > y[1]

Alignments ==
    {SortTuples(S) : S \in {T \in SUBSET BlockPool :
                              /\ T # {}
                              /\ Cardinality(T) <= MaxBlocks
                              /\ Disjoint(T)
                              /\ Contiguous(T)}}

\* for inputFile in inputFiles: open(inputFile)
OpenFile ==
    /\ pc = "files"
    /\ nFiles < MaxFiles
    /\ nFiles' = nFiles + 1
    /\ pc' = "read"
    /\ UNCHANGED <<nRead, nBound, calls, exonDb, intronDb, clusters, clusterNo,
                   absorbed, single_exons, bigCluster, loci, records, geneId,
                   numTranscripts>>
    /\ UNCHANGED <<gapVars, seVars, pathVars, colVars>>

\* one PSL record of the open file: every run parsePSL yields from it goes
\* through the loop body, and enumerate binds n to the run's count
ReadAlignment(blocks) ==
    /\ pc = "read"
    /\ nRead < MaxAlignments
    /\ LET runs == parsePSL(Chrom, blocks)
           m == RegisterRuns(MainState, runs, 1)
       IN /\ nBound' = (nBound \/ runs # <<>>)
          /\ exonDb' = m.exonDb
          /\ intronDb' = m.intronDb
          /\ clusters' = m.clusters
          /\ clusterNo' = m.clusterNo
          /\ single_exons' = m.single_exons
          /\ calls' = m.calls
          /\ absorbed' = m.absorbed
    /\ nRead' = nRead + 1
    /\ UNCHANGED <<pc, nFiles, bigCluster, loci, records, geneId, numTranscripts>>
    /\ UNCHANGED <<gapVars, seVars, pathVars, colVars>>

\* the file is exhausted: `if n % 1000 == 0` reads n, which no run of any
\* file so far may have bound (UnboundLocalError)
CloseFile ==
    /\ pc = "read"
    /\ pc' = IF nBound THEN "files" ELSE "unbound"
    /\ UNCHANGED <<nFiles, nRead, nBound, calls, exonDb, intronDb, clusters, clusterNo,
                   absorbed, single_exons, bigCluster, loci, records, geneId,
                   numTranscripts>>
    /\ UNCHANGED <<gapVars, seVars, pathVars, colVars>>

(***************************************************************************)
(* mergeClusters(exonDb).  For each exon, path lists the cluster of each   *)
(* of its introns in the iteration order of the set exon.introns, and the  *)
(* exons are visited in the order of exonDb's string keys; the model       *)
(* keeps every order of both.  An undirected edge is the set of its ends.  *)
(* keys is bigCluster.nodes(): the cluster ids in the order of the node    *)
(* dict, which got them as add_path and add_node met them.                 *)
(***************************************************************************)
\* add_path linking only the first two entries
FirstEdgeOnly(path) == {{path[1], path[2]}}

UPathEdges(path) == {{path[i], path[i + 1]} : i \in 1..(Len(path) - 1)}

\* the lists `path` can be for one exon
ExonPaths(exon, idb) ==
    {[i \in 1..Len(order) |-> idb[order[i]].cluster] : order \in Perms(exon.introns)}

\* one path per exon, for every exon of exonDb
RECURSIVE PathChoices(_, _, _)
PathChoices(keys, edb, idb) ==
    IF keys = {} THEN {<<>>}
    ELSE LET k == CHOOSE x \in keys : TRUE
         IN {(k :> path) @@ f : path \in ExonPaths(edb[k], idb),
                                f \in PathChoices(keys \ {k}, edb, idb)}

\* add_path(path) / add_node(path[0]): the nodes not yet in the node dict
\* enter it in the order of path
RECURSIVE AddNodesInOrder(_, _, _)
AddNodesInOrder(inserted, path, i) ==
    IF i > Len(path) THEN inserted
    ELSE AddNodesInOrder(IF path[i] \in Range(inserted) THEN inserted
                         ELSE Append(inserted, path[i]), path, i + 1)

\* the orders in which the node dict can get its keys, over all orders of
\* visiting the exons; an exon whose clusters are all there adds none
RECURSIVE NodeInsertions(_, _)
NodeInsertions(f, inserted) ==
    LET adding == {k \in DOMAIN f : Range(f[k]) \ Range(inserted) # {}}
    IN IF adding = {} THEN {inserted}
       ELSE UNION {NodeInsertions(f, AddNodesInOrder(inserted, f[k], 1)) :
                      k \in adding}

\* the graph of one choice of paths
MergedGraph(f) ==
    [nodes |-> UNION {Range(f[k]) : k \in DOMAIN f},
     edges |-> UNION {IF Len(f[k]) > 1 THEN UPathEdges(f[k]) ELSE {} :
                         k \in DOMAIN f}]

\* the set of graphs mergeClusters can return
mergeClusters(edb, idb) ==
    UNION {{[nodes |-> MergedGraph(f).nodes, edges |-> MergedGraph(f).edges,
             keys |-> PyDictKeys(q)] : q \in NodeInsertions(f, <<>>)} :
              f \in PathChoices(DOMAIN edb, edb, idb)}

\* Graph.neighbors(cl)
Neighbors(big, cl) == {n \in big.nodes : {cl, n} \in big.edges}

(***************************************************************************)
(* collapseExons(g, exonDb).  sortedExons is computed once per pass; the   *)
(* iterations whose sortedExons[i + 1] raises IndexError change nothing.   *)
(* All exons of one gene graph lie on one chromosome, so the sort keys     *)
(* are distinct.                                                           *)
(***************************************************************************)
SortedByEndStart(S, db) ==
    LET sorted == SortTuples({<<db[e].end, db[e].start>> : e \in S})
    IN [i \in 1..Len(sorted) |->
          CHOOSE e \in S : <<db[e].end, db[e].start>> = sorted[i]]

SortedByStartEnd(S, db) ==
    LET sorted == SortTuples({<<db[e].start, db[e].end>> : e \in S})
    IN [i \in 1..Len(sorted) |->
          CHOOSE e \in S : <<db[e].start, db[e].end>> = sorted[i]]

\* reattach the successors of `gone` to `kept`, then remove `gone`
SpliceOutDown(g, kept, gone) ==
    RemoveNode(AddEdges(g, {<<kept, n>> : n \in Successors(g, gone)}), gone)

\* reattach the predecessors of `gone` to `kept`, then remove `gone`
SpliceOutUp(g, kept, gone) ==
    RemoveNode(AddEdges(g, {<<n, kept>> : n \in Predecessors(g, gone)}), gone)

\* a first pass that tests the flag of a last exon
Pass1TestsRight == RightTerminal

\* the terminal value pass 1 tests on nextExon and on currExon
Pass1Terminal == LeftTerminal

\* one iteration of the first loop that found sortedExons[i + 1]: the graph
\* and currExon it leaves
Pass1Step(g, db, curr, next) ==
    IF db[curr].end = db[next].end
    THEN IF db[next].terminal = Pass1Terminal
         THEN [g |-> SpliceOutDown(g, curr, next), curr |-> curr]
         ELSE IF /\ db[curr].terminal = Pass1Terminal
                 /\ db[next].start - db[curr].start <= MIN_UTR
              THEN [g |-> SpliceOutDown(g, next, curr), curr |-> next]
              ELSE [g |-> g, curr |-> next]
    ELSE [g |-> g, curr |-> next]

RECURSIVE CollapsePass1(_, _, _, _, _)
CollapsePass1(g, db, sortedExons, i, curr) ==
    IF i + 1 > Len(sortedExons) THEN g
    ELSE LET r == Pass1Step(g, db, curr, sortedExons[i + 1])
         IN CollapsePass1(r.g, db, sortedExons, i + 1, r.curr)

RECURSIVE CollapsePass2(_, _, _, _, _)
CollapsePass2(g, db, sortedExons, i, curr) ==
    IF i + 1 > Len(sortedExons) THEN g
    ELSE LET next == sortedExons[i + 1]
         IN IF db[curr].start = db[next].start
            THEN IF db[curr].terminal = RightTerminal
                 THEN CollapsePass2(SpliceOutUp(g, next, curr), db,
                                    sortedExons, i + 1, next)
                 ELSE IF db[next].terminal = RightTerminal
                      THEN IF db[next].end - db[curr].end <= MIN_UTR
                           THEN CollapsePass2(SpliceOutUp(g, curr, next), db,
                                              sortedExons, i + 1, curr)
                           ELSE CollapsePass2(g, db, sortedExons, i + 1, next)
                      ELSE CollapsePass2(g, db, sortedExons, i + 1, next)
            ELSE CollapsePass2(g, db, sortedExons, i + 1, next)

collapseFirst(g, db) ==
    LET sortedExons == SortedByEndStart(g.nodes, db)
    IN CollapsePass1(g, db, sortedExons, 1, sortedExons[1])

\* collapseExons without its second pass
SkipSecond(g, db) == g

collapseSecond(g, db) ==
    LET sortedExons == SortedByStartEnd(g.nodes, db)
    IN CollapsePass2(g, db, sortedExons, 1, sortedExons[1])

collapseExons(g, db) == collapseSecond(collapseFirst(g, db), db)

(***************************************************************************)
(* walkDown and getPath.  `order` is the iteration order of the graph's    *)
(* dicts: order.nodes is g.nodes() and order.succ[n] is g.successors(n),   *)
(* each dict having an order of its own.  path is the list shared by all   *)
(* recursive calls, so each call returns it as it left it.  A call chain   *)
(* longer than the number of nodes has come back to a node, and then the   *)
(* recursion never ends: Python raises RuntimeError (maximum recursion     *)
(* depth exceeded, at depth 1000, which no walk without a cycle reaches    *)
(* in a graph of fewer nodes); err stands for that, and the call then      *)
(* yields no list.                                                         *)
(***************************************************************************)
SuccList(g, order, n) == order.succ[n]

InPath(nex, path) == nex \in Range(path)

\* a walk that leaves the last node on the shared list
NoPop(path) == path

\* list.pop()
Pop(path) == SubSeq(path, 1, Len(path) - 1)

RECURSIVE walkDown(_, _, _, _, _, _)
RECURSIVE WalkSuccessors(_, _, _, _, _, _, _)

walkDown(intronCoord, path, allPath, cluster, order, depth) ==
    IF depth > Cardinality(cluster.nodes)
    THEN [path |-> path, allPath |-> <<>>, err |-> TRUE]
    ELSE LET succ == SuccList(cluster, order, intronCoord)
         IN IF succ = <<>>
            THEN [path |-> path, allPath |-> Append(allPath, path), err |-> FALSE]
            ELSE WalkSuccessors(succ, 1, path, allPath, cluster, order, depth)

WalkSuccessors(succ, j, path, allPath, cluster, order, depth) ==
    IF j > Len(succ) THEN [path |-> path, allPath |-> allPath, err |-> FALSE]
    ELSE LET nex == succ[j]
             path1 == IF ~InPath(nex, path) THEN Append(path, nex) ELSE path
             r == walkDown(nex, path1, allPath, cluster, order, depth + 1)
         IN IF r.err THEN r
            ELSE WalkSuccessors(succ, j + 1, Pop(r.path), r.allPath,
                                cluster, order, depth)

RECURSIVE WalkRoots(_, _, _, _, _)
WalkRoots(roots, k, allPaths, cluster, order) ==
    IF k > Len(roots) THEN [allPaths |-> allPaths, err |-> FALSE]
    ELSE LET r == walkDown(roots[k], <<roots[k]>>, allPaths, cluster, order, 1)
         IN IF r.err THEN [allPaths |-> <<>>, err |-> TRUE]
            ELSE WalkRoots(roots, k + 1, r.allPath, cluster, order)

getPath(cluster, order) ==
    LET roots == SelectSeq(order.nodes, LAMBDA n : Predecessors(cluster, n) = {})
    IN WalkRoots(roots, 1, <<>>, cluster, order)

(***************************************************************************)
(* checkCriteria and printBedGraph.                                        *)
(***************************************************************************)
RECURSIVE SumLengths(_, _, _)
SumLengths(exons, db, i) ==
    IF i > Len(exons) THEN 0
    ELSE (db[exons[i]].end - db[exons[i]].start) + SumLengths(exons, db, i + 1)

\* the length test with < in place of <=
TooShortStrict(transcript_length) == transcript_length < MIN_TRANSCRIPT_LEN

TooShort(transcript_length) == transcript_length <= MIN_TRANSCRIPT_LEN

checkCriteria(transcript, db) ==
    LET exons == SortedByStartEnd(Range(transcript), db)
    IN ~TooShort(SumLengths(exons, db, 1))

\* the row printBedGraph writes (constant columns left out)
printBedGraph(transcript, db, gene, tran) ==
    LET exons == SortedByStartEnd(Range(transcript), db)
        chromStart == db[exons[1]].start
    IN [chrom |-> db[exons[1]].chrom,
        chromStart |-> chromStart,
        chromEnd |-> db[exons[Len(exons)]].end,
        geneId |-> gene,
        tranId |-> tran,
        blockCount |-> Len(exons),
        blockSizes |-> [i \in 1..Len(exons) |-> db[exons[i]].end - db[exons[i]].start],
        blockStarts |-> [i \in 1..Len(exons) |-> db[exons[i]].start - chromStart]]

\* the row printBedGraphSingle writes
printBedGraphSingle(exon, gene, tran) ==
    [chrom |-> exon.chrom,
     chromStart |-> exon.start,
     chromEnd |-> exon.end,
     geneId |-> gene,
     tranId |-> tran,
     blockCount |-> 1,
     blockSizes |-> <<exon.end - exon.start>>,
     blockStarts |-> <<exon.start - exon.start>>]

(***************************************************************************)
(* The iteration orders a graph's dicts can have.  Keys that are strings   *)
(* ('chr:start-end') come in hash order, any order as far as the program   *)
(* knows; of g.nodes() getPath uses only the order of the roots, so the    *)
(* other nodes are listed after them, by coordinate.  Int keys come in     *)
(* the order of the dict's slots.                                          *)
(***************************************************************************)
RECURSIVE SuccOrders(_, _)
SuccOrders(g, todo) ==
    IF todo = {} THEN {<<>>}
    ELSE LET n == CHOOSE x \in todo : TRUE
         IN {(n :> q) @@ f : q \in Perms(Successors(g, n)),
                             f \in SuccOrders(g, todo \ {n})}

IterOrders(g, db) ==
    LET roots == {n \in g.nodes : Predecessors(g, n) = {}}
    IN {[nodes |-> rp \o SortedByStartEnd(g.nodes \ roots, db), succ |-> f] :
           rp \in Perms(roots), f \in SuccOrders(g, g.nodes)}

\* a graph with int nodes that got its nodes, and then its edges, in
\* ascending order
IntKeyOrder(g) ==
    [nodes |-> PyDictKeys(SortInts(g.nodes)),
     succ |-> [n \in g.nodes |-> PyDictKeys(SortInts(Successors(g, n)))]]

(***************************************************************************)
(* buildGeneModels(exonDb, intronDb, clusters, bigCluster), isMin = False. *)
(* bigCluster.nodes() are cluster ids, visited in the order big.keys.  The *)
(* loop state b carries removedClusters, geneId, numTranscripts, excluded  *)
(* and the rows written; b.loci records, per gene graph built, the         *)
(* cluster cl it was built for, the clusters whose introns went into it,   *)
(* the graph before and after collapseExons, its paths and the gene id it  *)
(* kept (0 when the id was taken back).                                    *)
(***************************************************************************)
IntronEdges(idb, cls, members) ==
    UNION {idb[intron].edges : intron \in UNION {cls[c].nodes : c \in members}}

\* the clusters whose introns are added to the gene graph of cl
GeneMembers(big, cl) == {cl} \cup (Neighbors(big, cl) \ {cl})

\* buildGeneModels keeping the id of a gene without transcripts
NeverRetract(gene, transId) == gene

\* the `if transId == 0: geneId -= 1` at the end of a gene
RetractGeneId(gene, transId) == IF transId = 0 THEN gene - 1 ELSE gene

RECURSIVE EmitLoop(_, _, _, _, _)
EmitLoop(paths, j, db, gene, e) ==
    IF j > Len(paths) THEN e
    ELSE IF checkCriteria(paths[j], db)
    THEN EmitLoop(paths, j + 1, db, gene,
                  [e EXCEPT !.transId = @ + 1,
                            !.numTranscripts = @ + 1,
                            !.records = Append(@, printBedGraph(paths[j], db, gene,
                                                                e.transId + 1)),
                            !.passed = Append(@, TRUE)])
    ELSE EmitLoop(paths, j + 1, db, gene,
                  [e EXCEPT !.excluded = @ + 1, !.passed = Append(@, FALSE)])

\* the loop over bigCluster.nodes(): the set of the states b it can end in,
\* one per choice of iteration orders of the gene graphs
RECURSIVE BuildLoop(_, _, _, _, _, _, _)
BuildLoop(nodes, i, edb, idb, cls, big, b) ==
    IF i > Len(nodes) \/ b.err THEN {b}
    ELSE LET cl == nodes[i]
         IN IF cl \in b.removedClusters
            THEN BuildLoop(nodes, i + 1, edb, idb, cls, big, b)
            ELSE
            LET members == GeneMembers(big, cl)
                g == AddEdges(EmptyGraph, IntronEdges(idb, cls, members))
                removed == b.removedClusters \cup Neighbors(big, cl) \cup {cl}
                \* g.nodes() is never empty: every cluster holds an intron and
                \* every intron an edge
                gene == b.geneId + 1
                collapsed == collapseExons(g, edb)
            IN UNION {
               LET walked == getPath(collapsed, order)
                   e == EmitLoop(walked.allPaths, 1, edb, gene,
                              [transId |-> 0, numTranscripts |-> b.numTranscripts,
                               excluded |-> b.excluded, records |-> b.records,
                               passed |-> <<>>])
                   kept == RetractGeneId(gene, e.transId)
               IN IF walked.err THEN {[b EXCEPT !.err = TRUE]}
                  ELSE BuildLoop(nodes, i + 1, edb, idb, cls, big,
                      [removedClusters |-> removed,
                       geneId |-> kept,
                       numTranscripts |-> e.numTranscripts,
                       excluded |-> e.excluded,
                       records |-> e.records,
                       err |-> FALSE,
                       loci |-> Append(b.loci,
                                  [cl |-> cl, members |-> members, graph |-> g,
                                   collapsed |-> collapsed,
                                   paths |-> walked.allPaths,
                                   passed |-> e.passed,
                                   geneId |-> IF kept = gene THEN gene ELSE 0])])
               : order \in IterOrders(collapsed, edb)}

\* the states buildGeneModels can end in
buildGeneModels(edb, idb, cls, big) ==
    BuildLoop(big.keys, 1, edb, idb, cls, big,
              [removedClusters |-> {}, geneId |-> 0, numTranscripts |-> 0,
               excluded |-> 0, records |-> <<>>, err |-> FALSE, loci |-> <<>>])

(***************************************************************************)
(* merge_exons(exons).  chromOrder is the order in which `for chrom in     *)
(* exons` visits the chromosomes.  The function returns from inside the    *)
(* loop over chromosomes, when exons[chrom][i + 1] raises IndexError; with *)
(* no chromosome at all it falls off its end and returns None.             *)
(***************************************************************************)
\* sorted(list, key=lambda x: x.start): stable
RECURSIVE InsertByStart(_, _)
InsertByStart(sorted, x) ==
    IF sorted = <<>> THEN <<x>>
    ELSE IF sorted[Len(sorted)].start <= x.start THEN Append(sorted, x)
    ELSE Append(InsertByStart(Pop(sorted), x), sorted[Len(sorted)])

RECURSIVE SortByStart(_)
SortByStart(list) ==
    IF list = <<>> THEN <<>>
    ELSE InsertByStart(SortByStart(Pop(list)), list[Len(list)])

\* the while loop for one chromosome, up to the IndexError that ends it.
\* curr_exon and the members of new_exons[chrom] are objects of the list,
\* kept as positions; next_exon.start = curr_exon.start writes into the list
RECURSIVE MergeLoop(_, _, _, _)
MergeLoop(list, i, curr_exon, new) ==
    IF i + 1 > Len(list)
    THEN [list |-> list, new |-> [k \in 1..Len(new) |-> list[new[k]]]]
    ELSE LET next_exon == i + 1
         IN IF list[next_exon].start <= list[curr_exon].end
            THEN IF list[next_exon].end > list[curr_exon].end
                 THEN MergeLoop([list EXCEPT ![next_exon].start =
                                                 list[curr_exon].start],
                                i + 1, next_exon, new)
                 ELSE MergeLoop(list, i + 1, curr_exon, new)
            ELSE MergeLoop(list, i + 1, next_exon, Append(new, curr_exon))

\* exons is the table after the call: every list replaced by its sorted
\* copy, the starts of the visited chromosome overwritten
merge_exons(exons, chromOrder) ==
    LET sortedExons == [chrom \in DOMAIN exons |-> SortByStart(exons[chrom])]
    IN IF chromOrder = <<>>
       THEN [isNone |-> TRUE, chroms |-> <<>>, new_exons |-> <<>>,
             exons |-> sortedExons]
       ELSE LET chrom == chromOrder[1]
                loop == MergeLoop(sortedExons[chrom], 1, 1, <<>>)
            IN [isNone |-> FALSE,
                chroms |-> <<chrom>>,
                new_exons |-> (chrom :> loop.new),
                exons |-> [sortedExons EXCEPT ![chrom] = loop.list]]

\* main's loop over merged_single_exons: one gene and one transcript per exon
RECURSIVE EmitSingles(_, _, _)
EmitSingles(list, i, e) ==
    IF i > Len(list) THEN e
    ELSE EmitSingles(list, i + 1,
                     [geneId |-> e.geneId + 1,
                      numTranscripts |-> e.numTranscripts + 1,
                      records |-> Append(e.records,
                                    printBedGraphSingle(list[i], e.geneId + 1, 1))])

RECURSIVE EmitMerged(_, _, _, _)
EmitMerged(merged, chroms, k, e) ==
    IF k > Len(chroms) THEN e
    ELSE EmitMerged(merged, chroms, k + 1, EmitSingles(merged[chroms[k]], 1, e))

(***************************************************************************)
(* main(), after the loop over inputFiles.                                 *)
(***************************************************************************)
MergeClusters ==
    /\ pc = "files"
    /\ \E big \in mergeClusters(exonDb, intronDb) : bigCluster' = big
    /\ pc' = "merged"
    /\ UNCHANGED <<nFiles, nRead, nBound, calls, exonDb, intronDb, clusters, clusterNo, absorbed,
                   single_exons, loci, records, geneId, numTranscripts>>
    /\ UNCHANGED <<gapVars, seVars, pathVars, colVars>>

BuildGeneModels ==
    /\ pc = "merged"
    /\ \E b \in buildGeneModels(exonDb, intronDb, clusters, bigCluster) :
          /\ loci' = b.loci
          /\ records' = b.records
          /\ geneId' = b.geneId
          /\ numTranscripts' = b.numTranscripts
          /\ pc' = IF b.err THEN "error" ELSE "built"
    /\ UNCHANGED <<nFiles, nRead, nBound, calls, exonDb, intronDb, clusters, clusterNo, absorbed,
                   single_exons, bigCluster>>
    /\ UNCHANGED <<gapVars, seVars, pathVars, colVars>>

\* merge_exons(single_exons), the rows of the single exons, the summary:
\* iterating over None raises TypeError, and the last line of the summary
\* divides by len(clusters)
MergeSingleExons ==
    /\ pc = "built"
    /\ \E chromOrder \in Perms(DOMAIN single_exons) :
         LET merged == merge_exons(single_exons, chromOrder)
             e == EmitMerged(merged.new_exons, merged.chroms, 1,
                             [geneId |-> geneId, numTranscripts |-> numTranscripts,
                              records |-> records])
         IN /\ single_exons' = merged.exons
            /\ records' = e.records
            /\ geneId' = e.geneId
            /\ numTranscripts' = e.numTranscripts
            /\ pc' = IF merged.isNone \/ DOMAIN clusters = {} THEN "error"
                     ELSE "done"
    /\ UNCHANGED <<nFiles, nRead, nBound, calls, exonDb, intronDb, clusters, clusterNo, absorbed,
                   bigCluster, loci>>
    /\ UNCHANGED <<gapVars, seVars, pathVars, colVars>>

(***************************************************************************)
(* deleteGap on its own: a start-ordered list of blocks, then its output.  *)
(***************************************************************************)
GapCoords == {0, 10, 20, 35, 50}

GapBlocks == {ExonObj(Chrom, c[1], c[2]) : c \in {d \in GapCoords \X GapCoords : d[1] < d[2]}}

RECURSIVE SeqsUpTo(_, _)
SeqsUpTo(S, n) ==
    IF n = 0 THEN {<<>>}
    ELSE LET shorter == SeqsUpTo(S, n - 1)
         IN shorter \cup {Append(q, x) : q \in shorter, x \in S}

StartOrdered(q) == \A i \in 1..(Len(q) - 1) : q[i].start <= q[i + 1].start

GapInputs == {q \in SeqsUpTo(GapBlocks, MaxGapLen) : q # <<>> /\ StartOrdered(q)}

\* out = deleteGap(gapIn): the call also leaves its overwrites in gapIn
DeleteGapOnce ==
    /\ gapPc = "start"
    /\ LET r == DeleteGapLoop(gapIn, 1, 1, <<>>)
       IN /\ gapIn' = r.exons
          /\ gapRef' = r.newExon
    /\ gapOnce' = deleteGap(gapIn)
    /\ gapPc' = "once"
    /\ UNCHANGED gapTwice
    /\ UNCHANGED <<mainVars, seVars, pathVars, colVars>>

\* deleteGap(out): what it overwrites in out it overwrites in gapIn as well,
\* the two lists holding the same objects
DeleteGapTwice ==
    /\ gapPc = "once"
    /\ LET r == DeleteGapLoop(gapOnce, 1, 1, <<>>)
       IN /\ gapOnce' = r.exons
          /\ gapIn' = [k \in 1..Len(gapIn) |->
                          IF \E j \in 1..Len(gapRef) : gapRef[j] = k
                          THEN r.exons[CHOOSE j \in 1..Len(gapRef) : gapRef[j] = k]
                          ELSE gapIn[k]]
    /\ gapTwice' = deleteGap(gapOnce)
    /\ gapPc' = "twice"
    /\ UNCHANGED gapRef
    /\ UNCHANGED <<mainVars, seVars, pathVars, colVars>>

(***************************************************************************)
(* merge_exons on its own: main's single_exons table filled from a list    *)
(* of single-exon alignments on up to two chromosomes, then merged and     *)
(* written as main does.                                                   *)
(***************************************************************************)
SingleChroms == {"chr1", "chr2"}

SingleCoords == {<<50, 150>>, <<120, 200>>, <<300, 400>>}

SinglePool == {ExonObj(ch, c[1], c[2]) : ch \in SingleChroms, c \in SingleCoords}

RECURSIVE FillSingles(_, _, _)
FillSingles(se, q, i) ==
    IF i > Len(q) THEN se ELSE FillSingles(AppendSingle(se, q[i]), q, i + 1)

SingleTables == {FillSingles(<<>>, q, 1) : q \in SeqsUpTo(SinglePool, MaxSingles)}

MergeExons ==
    /\ sePc = "start"
    /\ LET merged == merge_exons(seIn, seOrder)
       IN /\ seOut' = [isNone |-> merged.isNone, chroms |-> merged.chroms,
                       new_exons |-> merged.new_exons]
          /\ seIn' = merged.exons
    /\ sePc' = "merged"
    /\ UNCHANGED <<seGiven, seOrder, seRecords>>
    /\ UNCHANGED <<mainVars, gapVars, pathVars, colVars>>

WriteSingles ==
    /\ sePc = "merged"
    /\ seRecords' = EmitMerged(seOut.new_exons, seOut.chroms, 1,
                               [geneId |-> 0, numTranscripts |-> 0,
                                records |-> <<>>]).records
    /\ sePc' = IF seOut.isNone THEN "error" ELSE "written"
    /\ UNCHANGED <<seGiven, seIn, seOrder, seOut>>
    /\ UNCHANGED <<mainVars, gapVars, pathVars, colVars>>

(***************************************************************************)
(* getPath on its own: a directed graph on the nodes 1..MaxNodes with at   *)
(* most MaxEdges edges (self-loops and cycles included).                   *)
(***************************************************************************)
RECURSIVE SubsetsUpTo(_, _)
SubsetsUpTo(S, n) ==
    IF n = 0 THEN {{}}
    ELSE LET smaller == SubsetsUpTo(S, n - 1)
         IN smaller \cup {T \cup {x} : T \in smaller, x \in S}

PathGraphs ==
    {[nodes |-> 1..MaxNodes, edges |-> E] :
        E \in SubsetsUpTo((1..MaxNodes) \X (1..MaxNodes), MaxEdges)}

GetPath ==
    /\ pathPc = "start"
    /\ pathResult' = getPath(pathGraph, IntKeyOrder(pathGraph))
    /\ pathPc' = "walked"
    /\ UNCHANGED pathGraph
    /\ UNCHANGED <<mainVars, gapVars, seVars, colVars>>

(***************************************************************************)
(* collapseExons on a gene graph of buildGeneModels, its first loop one    *)
(* iteration at a time.  The alignments read beforehand come from a pool   *)
(* whose middle exons share their end: 150-400, 250-400 and 300-400, with  *)
(* 20-100 upstream and 600-800 downstream.                                 *)
(***************************************************************************)
CollapseUp == <<20, 80>>
CollapseDown == <<600, 200>>
CollapseMiddle == {<<150, 250>>, <<250, 150>>, <<300, 100>>}

CollapseAlignments ==
    {SortTuples(S) : S \in {T \in SUBSET (CollapseMiddle \cup {CollapseUp, CollapseDown}) :
                              /\ Cardinality(T) >= 2
                              /\ Cardinality(T) <= MaxBlocks
                              /\ Cardinality(T \cap CollapseMiddle) <= 1}}

\* collapseExons is entered with a gene graph g that buildGeneModels built:
\* exons = [exonDb[e] for e in g.nodes()]; sortedExons = sorted(...);
\* i = 0; currExon = sortedExons[i]
CollapseBegin ==
    /\ pc = "merged"
    /\ colPc = "start"
    /\ \E b \in buildGeneModels(exonDb, intronDb, clusters, bigCluster) :
          \E k \in 1..Len(b.loci) :
             LET sortedExons == SortedByEndStart(b.loci[k].graph.nodes, exonDb)
             IN /\ colG' = b.loci[k].graph
                /\ colSorted' = sortedExons
                /\ colI' = 1
                /\ colCurr' = sortedExons[1]
    /\ colPc' = "pass1"
    /\ UNCHANGED <<mainVars, gapVars, seVars, pathVars>>

\* one iteration of the first loop that finds sortedExons[i + 1]
CollapseCompare ==
    /\ colPc = "pass1"
    /\ colI + 1 <= Len(colSorted)
    /\ LET r == Pass1Step(colG, exonDb, colCurr, colSorted[colI + 1])
       IN /\ colG' = r.g
          /\ colCurr' = r.curr
    /\ colI' = colI + 1
    /\ UNCHANGED <<colPc, colSorted>>
    /\ UNCHANGED <<mainVars, gapVars, seVars, pathVars>>

\* the iterations that raise IndexError, then the second loop
CollapseSecond ==
    /\ colPc = "pass1"
    /\ colI + 1 > Len(colSorted)
    /\ colG' = collapseSecond(colG, exonDb)
    /\ colPc' = "done"
    /\ UNCHANGED <<colSorted, colI, colCurr>>
    /\ UNCHANGED <<mainVars, gapVars, seVars, pathVars>>

(***************************************************************************)
(* Initial states and specifications.                                      *)
(***************************************************************************)
\* the module globals and main's locals before the first file is opened
MainInit ==
    /\ pc = "files"
    /\ nFiles = 0
    /\ nRead = 0
    /\ nBound = FALSE
    /\ calls = <<>>
    /\ exonDb = <<>>
    /\ intronDb = <<>>
    /\ clusters = <<>>
    /\ clusterNo = 0
    /\ absorbed = <<>>
    /\ single_exons = <<>>
    /\ bigCluster = EmptyGraph
    /\ loci = <<>>
    /\ records = <<>>
    /\ geneId = 0
    /\ numTranscripts = 0

GapOff ==
    /\ gapPc = "off"
    /\ gapIn = <<>>
    /\ gapRef = <<>>
    /\ gapOnce = <<>>
    /\ gapTwice = <<>>

SeOff ==
    /\ sePc = "off"
    /\ seIn = <<>>
    /\ seGiven = <<>>
    /\ seOrder = <<>>
    /\ seOut = [isNone |-> TRUE, chroms |-> <<>>, new_exons |-> <<>>]
    /\ seRecords = <<>>

PathOff ==
    /\ pathPc = "off"
    /\ pathGraph = EmptyGraph
    /\ pathResult = [allPaths |-> <<>>, err |-> FALSE]

ColOff ==
    /\ colPc = "off"
    /\ colG = EmptyGraph
    /\ colSorted = <<>>
    /\ colI = 0
    /\ colCurr = None

Init == MainInit /\ GapOff /\ SeOff /\ PathOff /\ ColOff

Next ==
    \/ OpenFile
    \/ \E blocks \in Alignments : ReadAlignment(blocks)
    \/ CloseFile
    \/ MergeClusters
    \/ BuildGeneModels
    \/ MergeSingleExons

Spec == Init /\ [][Next]_vars

GapInit ==
    /\ MainInit /\ SeOff /\ PathOff /\ ColOff
    /\ gapPc = "start"
    /\ gapIn \in GapInputs
    /\ gapRef = <<>>
    /\ gapOnce = <<>>
    /\ gapTwice = <<>>

GapNext == DeleteGapOnce \/ DeleteGapTwice

SpecGap == GapInit /\ [][GapNext]_vars

SingleInit ==
    /\ MainInit /\ GapOff /\ PathOff /\ ColOff
    /\ sePc = "start"
    /\ seIn \in SingleTables
    /\ seGiven = seIn
    /\ seOrder \in Perms(DOMAIN seIn)
    /\ seOut = [isNone |-> TRUE, chroms |-> <<>>, new_exons |-> <<>>]
    /\ seRecords = <<>>

SingleNext == MergeExons \/ WriteSingles

SpecSingle == SingleInit /\ [][SingleNext]_vars

PathInit ==
    /\ MainInit /\ GapOff /\ SeOff /\ ColOff
    /\ pathPc = "start"
    /\ pathGraph \in PathGraphs
    /\ pathResult = [allPaths |-> <<>>, err |-> FALSE]

PathNext == GetPath

SpecPath == PathInit /\ [][PathNext]_vars

CollapseInit ==
    /\ MainInit /\ GapOff /\ SeOff /\ PathOff
    /\ colPc = "start"
    /\ colG = EmptyGraph
    /\ colSorted = <<>>
    /\ colI = 0
    /\ colCurr = None

CollapseNext ==
    \/ OpenFile
    \/ \E blocks \in CollapseAlignments : ReadAlignment(blocks)
    \/ CloseFile
    \/ MergeClusters
    \/ CollapseBegin
    \/ CollapseCompare
    \/ CollapseSecond

SpecCollapse == CollapseInit /\ [][CollapseNext]_vars

(***************************************************************************)
(* Properties.                                                             *)
(***************************************************************************)
ExonA == <<Chrom, 100, 200>>
ExonB == <<Chrom, 300, 400>>
ExonB2 == <<Chrom, 300, 450>>

\* sum of end - start over the exon names of a path
RECURSIVE NameLengthSum(_, _)
NameLengthSum(path, i) ==
    IF i > Len(path) THEN 0
    ELSE (path[i][3] - path[i][2]) + NameLengthSum(path, i + 1)

RECURSIVE SeqSum(_, _)
SeqSum(q, i) == IF i > Len(q) THEN 0 ELSE q[i] + SeqSum(q, i + 1)

\* the nodes reachable from the set `seen` in an undirected graph
RECURSIVE ReachFrom(_, _)
ReachFrom(big, seen) ==
    LET more == seen \cup {n \in big.nodes : \E m \in seen : {m, n} \in big.edges}
    IN IF more = seen THEN seen ELSE ReachFrom(big, more)

Components(big) == {ReachFrom(big, {n}) : n \in big.nodes}

\* C1: after any sequence of addIntrons calls with fresh cluster numbers,
\* every intron's cluster attribute is a key of the clusters table and the
\* intron is a node of exactly one cluster graph, the one its attribute names.
C1_ClusterInvariant ==
    \A n \in DOMAIN intronDb :
        /\ intronDb[n].cluster \in DOMAIN clusters
        /\ {c \in DOMAIN clusters : n \in clusters[c].nodes} = {intronDb[n].cluster}

\* a call absorbed two clusters at once
C1_Witness ==
    \E i \in 1..Len(absorbed) : Cardinality(absorbed[i]) >= 2

\* The input of C4: exons 100-200, 300-400 and then 100-200, 300-450 on one
\* chromosome, both alignments read and the gene models built.
C4_Case ==
    /\ pc = "built"
    /\ calls = <<(<<ExonA, ExonB>>), (<<ExonA, ExonB2>>)>>
    /\ single_exons = <<>>

\* C4 as stated: the two alignments give one locus with one gene and two
\* transcript paths of total exon length 200 and 250; the first is excluded
\* and the second is written.
C4_TwoPathsOneEmitted ==
    C4_Case =>
        /\ Len(loci) = 1
        /\ geneId = 1
        /\ Len(loci[1].paths) = 2
        /\ NameLengthSum(loci[1].paths[1], 1) = 200
        /\ NameLengthSum(loci[1].paths[2], 1) = 250
        /\ loci[1].passed = <<FALSE, TRUE>>
        /\ Len(records) = 1
        /\ SeqSum(records[1].blockSizes, 1) = 250

\* C4 amended: the two alignments give one locus whose collapsed graph has
\* the single path 100-200, 300-450 of total exon length 250; that path is
\* excluded, no record is written and no gene id is kept.
C4_OnePathExcluded ==
    C4_Case =>
        /\ Len(loci) = 1
        /\ loci[1].paths = <<(<<ExonA, ExonB2>>)>>
        /\ NameLengthSum(loci[1].paths[1], 1) = 250
        /\ loci[1].passed = <<FALSE>>
        /\ records = <<>>
        /\ geneId = 0
        /\ numTranscripts = 0

C4_Witness == C4_Case /\ Len(loci) = 1 /\ ExonB \in loci[1].graph.nodes

\* C2: every connected component of the big-cluster graph is processed as
\* exactly one gene whose graph holds the introns of all clusters of the
\* component, and no cluster's introns go into the graphs of two genes.
C2_OneGenePerComponent ==
    pc = "built" =>
        /\ \A comp \in Components(bigCluster) :
              Cardinality({k \in 1..Len(loci) : loci[k].members = comp}) = 1
        /\ \A k, l \in 1..Len(loci) :
              k # l => loci[k].members \cap loci[l].members = {}

\* C3: merge_exons returns, for every chromosome of its input, merged
\* intervals that cover every input exon, one per maximal group of
\* overlapping exons, each written as a one-exon gene; [50-150] and
\* [120-200] on one chromosome give the single record [50-200].
C3_MergeCoversInput ==
    sePc = "written" =>
        /\ \A chrom \in DOMAIN seGiven :
              \A i \in 1..Len(seGiven[chrom]) :
                 \E r \in Range(seRecords) :
                    /\ r.chrom = chrom
                    /\ r.chromStart <= seGiven[chrom][i].start
                    /\ seGiven[chrom][i].end <= r.chromEnd
        /\ seGiven = ("chr1" :> <<ExonObj("chr1", 50, 150), ExonObj("chr1", 120, 200)>>)
              => /\ Len(seRecords) = 1
                 /\ seRecords[1].chromStart = 50
                 /\ seRecords[1].chromEnd = 200

\* Where a key was handed to addExon: anywhere, inside a run, at an end of a run.
Registered == UNION {Range(calls[i]) : i \in 1..Len(calls)}

InternalAt(i, k) == \E j \in 2..(Len(calls[i]) - 1) : calls[i][j] = k

TerminalAt(i, k) == calls[i][1] = k \/ calls[i][Len(calls[i])] = k

\* C5: exonDb holds exactly one entry per distinct (chromosome, start, end)
\* handed to addExon, and an entry whose coordinates occurred as an internal
\* exon of one alignment and as a first or last exon of another has terminal
\* None, whichever came first.
C5_RegistryIdentity ==
    /\ DOMAIN exonDb = Registered
    /\ \A k \in DOMAIN exonDb :
          /\ ExonStr(exonDb[k]) = k
          /\ (\E i, j \in 1..Len(calls) : InternalAt(i, k) /\ TerminalAt(j, k))
                => exonDb[k].terminal = None

\* an exon registered first as a terminal exon, later as an internal one
C5_Witness ==
    \E k \in DOMAIN exonDb :
        \E i, j \in 1..Len(calls) : i < j /\ TerminalAt(i, k) /\ InternalAt(j, k)

\* Number of paths of locus k that checkCriteria accepted.
PassedCount(k) ==
    Cardinality({j \in 1..Len(loci[k].passed) : loci[k].passed[j]})

\* C6: a path is accepted by checkCriteria exactly when its summed exon
\* length is strictly greater than MIN_TRANSCRIPT_LEN, and every record
\* buildGeneModels writes is longer than MIN_TRANSCRIPT_LEN.
C6_LengthFilter ==
    pc = "built" =>
        /\ \A k \in 1..Len(loci) :
              \A j \in 1..Len(loci[k].paths) :
                 loci[k].passed[j] <=>
                    NameLengthSum(loci[k].paths[j], 1) > MIN_TRANSCRIPT_LEN
        /\ \A i \in 1..Len(records) :
              SeqSum(records[i].blockSizes, 1) > MIN_TRANSCRIPT_LEN
        /\ Len(records) = SeqSum([k \in 1..Len(loci) |-> PassedCount(k)], 1)

\* a path of exactly MIN_TRANSCRIPT_LEN was examined and rejected
C6_Witness ==
    /\ pc = "built"
    /\ \E k \in 1..Len(loci) :
          \E j \in 1..Len(loci[k].paths) :
             /\ NameLengthSum(loci[k].paths[j], 1) = MIN_TRANSCRIPT_LEN
             /\ ~loci[k].passed[j]
    /\ records # <<>>

\* The coordinates of a list of exons.
Intervals(exons) == [i \in 1..Len(exons) |-> <<exons[i].start, exons[i].end>>]

\* C7: deleteGap applied to its own output returns the same intervals, and
\* in its output every consecutive pair is more than GAP_SIZE apart.
C7_GapFillIdempotent ==
    /\ gapPc \in {"once", "twice"} =>
          \A i \in 1..(Len(gapOnce) - 1) :
             gapOnce[i + 1].start - gapOnce[i].end > GAP_SIZE
    /\ gapPc = "twice" => Intervals(gapTwice) = Intervals(gapOnce)

\* blocks were merged and more than one interval is left
C7_Witness ==
    /\ gapPc = "twice"
    /\ Len(gapOnce) < Len(gapIn)
    /\ Len(gapOnce) >= 2

\* The clusters the introns of exon k belong to.
ExonClusters(k) == {intronDb[n].cluster : n \in exonDb[k].introns}

\* C8: after mergeClusters, the clusters of the introns of any one exon are
\* nodes of the big-cluster graph and lie in one connected component.
C8_LocusConnectivity ==
    pc \in {"merged", "built", "done", "error"} =>
        \A k \in DOMAIN exonDb :
            /\ ExonClusters(k) \subseteq bigCluster.nodes
            /\ \A c \in ExonClusters(k) :
                  ExonClusters(k) \subseteq ReachFrom(bigCluster, {c})

\* an exon whose introns belong to three clusters
C8_Witness ==
    /\ pc = "merged"
    /\ \E k \in DOMAIN exonDb : Cardinality(ExonClusters(k)) >= 3

\* C9: the gene ids of the records buildGeneModels writes are exactly
\* 1..G, G the gene count it returns; G counts the loci with a transcript
\* that passed; within a gene the transcript ids run 1..k in the order
\* written.
C9_GeneNumbering ==
    pc = "built" =>
        /\ {records[i].geneId : i \in 1..Len(records)} = 1..geneId
        /\ \A i \in 1..(Len(records) - 1) :
              records[i].geneId <= records[i + 1].geneId
        /\ \A i \in 1..Len(records) :
              records[i].tranId =
                 1 + Cardinality({j \in 1..(i - 1) :
                                     records[j].geneId = records[i].geneId})
        /\ geneId = Cardinality({k \in 1..Len(loci) : PassedCount(k) > 0})
        /\ numTranscripts = Len(records)

\* a locus whose paths were all rejected, followed by a locus with a record
C9_Witness ==
    /\ pc = "built"
    /\ \E k, l \in 1..Len(loci) :
          /\ k < l
          /\ \A j \in 1..Len(loci[k].passed) : ~loci[k].passed[j]
          /\ \E j \in 1..Len(loci[l].passed) : loci[l].passed[j]
    /\ records # <<>>

NoRepeat(path) == \A i, j \in 1..Len(path) : i # j => path[i] # path[j]

\* C10: getPath terminates on every finite directed graph: the recursion
\* never re-enters a node of the current path, so it ends without error
\* and no returned path repeats a node.
C10_WalkTerminates ==
    pathPc = "walked" =>
        /\ ~pathResult.err
        /\ \A i \in 1..Len(pathResult.allPaths) : NoRepeat(pathResult.allPaths[i])

\* The nodes reachable from the set S by one or more edges.
RECURSIVE Descendants(_, _, _)
Descendants(g, S, seen) ==
    LET nxt == UNION {Successors(g, n) : n \in S} \ seen
    IN IF nxt = {} THEN seen ELSE Descendants(g, nxt, seen \cup nxt)

Acyclic(g) == \A n \in g.nodes : n \notin Descendants(g, {n}, {})

\* The edge-following paths that start in P's paths and are grown to a leaf.
RECURSIVE GrowPaths(_, _, _)
GrowPaths(g, P, done) ==
    IF P = {} THEN done
    ELSE GrowPaths(g,
             {r \in {Append(q, n) : q \in P, n \in g.nodes} :
                  r[Len(r)] \in Successors(g, r[Len(r) - 1])},
             done \cup {q \in P : Successors(g, q[Len(q)]) = {}})

MaximalPaths(g) ==
    GrowPaths(g, {<<n>> : n \in {m \in g.nodes : Predecessors(g, m) = {}}}, {})

\* C11: on an acyclic directed graph getPath ends without error and returns
\* every maximal root-to-leaf path of the graph exactly once and nothing
\* else, so no entry carries nodes left over from a sibling branch.
C11_AllMaximalPaths ==
    (pathPc = "walked" /\ Acyclic(pathGraph)) =>
        /\ ~pathResult.err
        /\ Range(pathResult.allPaths) = MaximalPaths(pathGraph)
        /\ Len(pathResult.allPaths) = Cardinality(MaximalPaths(pathGraph))

\* an acyclic graph where a node has two successors, one of them a leaf and
\* the other continuing, so that the shared list is longer when the walk
\* comes back to the branching node
C11_Witness ==
    /\ pathPc = "walked"
    /\ Acyclic(pathGraph)
    /\ \E n \in pathGraph.nodes :
          \E a, b \in Successors(pathGraph, n) :
              /\ a < b
              /\ Successors(pathGraph, a) # {}
              /\ Successors(pathGraph, b) = {}
    /\ Len(pathResult.allPaths) >= 2

\* One iteration of the first loop of collapseExons has just compared
\* currExon with sortedExons[i + 1], and the two have the same end.
SameEndCompared ==
    /\ colPc = "pass1" /\ colPc' = "pass1"
    /\ colI' = colI + 1
    /\ exonDb[colCurr].end = exonDb[colSorted[colI + 1]].end

\* The step removed `gone` and gave its successors to `kept`.
SplicedOut(kept, gone) ==
    /\ colG'.nodes = colG.nodes \ {gone}
    /\ Successors(colG, gone) \subseteq Successors(colG', kept)

\* C12 as stated: in pass 1, of two compared exons with the same end the
\* later one is removed when it is right-terminal (flag 2) and its
\* successors go to the earlier one; otherwise the earlier one is removed
\* when it is left-terminal and starts at most MIN_UTR before the later one.
C12_RightTerminalRemoved ==
    [][SameEndCompared =>
          LET earlier == colCurr
              later == colSorted[colI + 1]
          IN IF exonDb[later].terminal = RightTerminal
             THEN SplicedOut(earlier, later)
             ELSE (/\ exonDb[earlier].terminal = LeftTerminal
                   /\ exonDb[later].start - exonDb[earlier].start <= MIN_UTR)
                    => SplicedOut(later, earlier)]_vars

\* C12 amended: in pass 1, of two compared exons with the same end the
\* later one is removed when it is left-terminal (flag 1) and its
\* successors go to the earlier one; otherwise the earlier one is removed
\* when it is left-terminal and starts at most MIN_UTR before the later one.
C12_LeftTerminalRemoved ==
    [][SameEndCompared =>
          LET earlier == colCurr
              later == colSorted[colI + 1]
          IN IF exonDb[later].terminal = LeftTerminal
             THEN SplicedOut(earlier, later)
             ELSE (/\ exonDb[earlier].terminal = LeftTerminal
                   /\ exonDb[later].start - exonDb[earlier].start <= MIN_UTR)
                    => SplicedOut(later, earlier)]_vars

\* the first loop has removed a left-terminal earlier exon and then a
\* left-terminal later exon, whose successors the kept exon now has
C12_Witness ==
    /\ colPc = "pass1"
    /\ colI >= 3
    /\ \E i \in 1..(colI - 2) :
          LET first == colSorted[i]
              later == colSorted[colI]
          IN /\ colCurr = colSorted[colI - 1]
             /\ exonDb[first].end = exonDb[colCurr].end
             /\ exonDb[later].end = exonDb[colCurr].end
             /\ exonDb[first].terminal = LeftTerminal
             /\ exonDb[later].terminal = LeftTerminal
             /\ first \notin colG.nodes
             /\ later \notin colG.nodes
             /\ Successors(colG, colCurr) # {}

\* Two introns are nodes of one graph of the cluster table.
Together(cls, a, b) == \E c \in DOMAIN cls : a \in cls[c].nodes /\ b \in cls[c].nodes

\* The step is one call of addIntrons that absorbed clusters.
AbsorbingCall ==
    /\ Len(absorbed') = Len(absorbed) + 1
    /\ absorbed'[Len(absorbed')] # {}

\* C13: clusters only merge.  Two introns that share a cluster (by the
\* cluster table and by their cluster attribute) still share one after any
\* later call; a call that absorbs clusters puts every intron of every
\* absorbed cluster into the new cluster, whose id is the fresh cluster
\* number and none of the absorbed ids, and pops the absorbed ids.
C13_ClustersOnlyMerge ==
    [][/\ \A a, b \in DOMAIN intronDb :
             /\ Together(clusters, a, b) => Together(clusters', a, b)
             /\ intronDb[a].cluster = intronDb[b].cluster
                   => intronDb'[a].cluster = intronDb'[b].cluster
       /\ AbsorbingCall =>
             LET popped == absorbed'[Len(absorbed')]
             IN /\ popped \subseteq DOMAIN clusters
                /\ clusterNo \notin DOMAIN clusters
                /\ clusterNo \notin popped
                /\ clusterNo \in DOMAIN clusters'
                /\ popped \cap DOMAIN clusters' = {}
                /\ \A c \in popped :
                      /\ clusters[c].nodes \subseteq clusters'[clusterNo].nodes
                      /\ \A n \in clusters[c].nodes :
                            intronDb'[n].cluster = clusterNo]_vars

\* a call absorbed two clusters at once, one of them the single-node
\* cluster of a two-exon alignment, and the cluster it made is in the table
C13_Witness ==
    \E j \in 1..Len(absorbed) :
        /\ Cardinality(absorbed[j]) >= 2
        /\ \E c \in absorbed[j] :
              /\ Len(calls[c + 1]) = 2
              /\ absorbed[c + 1] = {}
        /\ (j - 1) \in DOMAIN clusters
        /\ Cardinality(clusters[j - 1].nodes) >= 2

====
